---------------------------- MODULE Spec2Model ----------------------------
(***************************************************************************)
(* Model of src/app.py: the ATR scanner (ATRScanner), the process-wide    *)
(* scan_data store, the scan run perform_scan, the periodic loop          *)
(* schedule_scans, the startup thread of __main__ and the HTTP handlers   *)
(* get_scan_data, force_scan, update_settings and export_symbols; and     *)
(* direct calls of calculate_atr and calculate_atr_percentage.            *)
(*                                                                         *)
(* Numbers.  Prices are integers.  A float is an IEEE 754 double, held as  *)
(* [sign, m, e] and rounded to nearest-even after every operation, as      *)
(* Python's float arithmetic is.  The float settings min_atr_percentage    *)
(* and atr_multiplier, and every JSON number of a request body, are held   *)
(* by their decimal text in tenths (0.5 is 5), which stands for the double *)
(* nearest to it.                                                          *)
(*                                                                         *)
(* Threads.  Python threads interleave between bytecodes, so every read   *)
(* or write of scan_data by perform_scan, get_scan_data, force_scan and   *)
(* update_settings is a step of its own, and so are the call of           *)
(* datetime.now() and the start of a thread.  scan_symbols touches only   *)
(* its arguments, its locals and the upstream API; it is cut at the       *)
(* upstream calls.  export_symbols is cut at its two reads of the         *)
(* results.  A print may raise (a closed stdout): in perform_scan's try   *)
(* block that is a step to the handler, whose own print (line 213) may    *)
(* raise too, and whose line 214 is a step of its own.  The reloader      *)
(* process that app.run(debug=True) forks has a scan_data of its own and  *)
(* is not modelled.                                                       *)
(***************************************************************************)
EXTENDS Integers, Sequences, FiniteSets

\* ------------------------------------------------------------------ bounds

\* Scan runs that may be started in one behaviour (periodic iterations, the
\* startup thread and accepted force-scans together).
MaxRuns == 3

\* update-settings requests handled in one behaviour.
MaxUpdates == 1

\* Times the periodic loop's time.sleep(3600) returns in one behaviour.
MaxWakes == 1

\* Distinct readings of the wall clock.
MaxTime == 2

\* Direct calls of the indicator functions: the longest series and the
\* largest period they are called with.
MaxLen == 3
MaxPeriod == 2

\* ----------------------------------------------------------------- threads

Periodic == 0
Startup == 1
ForceThreads == 2..MaxRuns
Threads == {Periodic, Startup} \cup ForceThreads

\* The run that stored results or last_update, runs being numbered 1, 2,
\* ... in the order they begin: no run yet.
Nobody == -1

\* ------------------------------------------------------- indicator (pure)

Abs(x) == IF x < 0 THEN 0 - x ELSE x

Max2(a, b) == IF a >= b THEN a ELSE b

\* ---- IEEE 754 binary64, the arithmetic of Python's float.  A natural
\* number is the sequence of its base-32768 digits, lowest first, with no
\* leading zero digit (zero is <<>>).

RECURSIVE Trim(_)
Trim(a) ==
    IF a = <<>> THEN <<>>
    ELSE IF a[Len(a)] = 0 THEN Trim(SubSeq(a, 1, Len(a) - 1))
    ELSE a

RECURSIVE NatOf(_)
NatOf(n) == IF n = 0 THEN <<>> ELSE <<n % 32768>> \o NatOf(n \div 32768)

\* -1, 0 or 1 as a < b, a = b or a > b
RECURSIVE NatCmp(_, _)
NatCmp(a, b) ==
    IF Len(a) # Len(b) THEN (IF Len(a) < Len(b) THEN -1 ELSE 1)
    ELSE IF a = <<>> THEN 0
    ELSE IF a[Len(a)] # b[Len(b)]
    THEN (IF a[Len(a)] < b[Len(b)] THEN -1 ELSE 1)
    ELSE NatCmp(SubSeq(a, 1, Len(a) - 1), SubSeq(b, 1, Len(b) - 1))

\* a * k + carry, for 0 <= k < 32768
RECURSIVE NatMulAdd(_, _, _)
NatMulAdd(a, k, carry) ==
    IF a = <<>> THEN NatOf(carry)
    ELSE LET x == a[1] * k + carry
         IN <<x % 32768>> \o NatMulAdd(Tail(a), k, x \div 32768)

NatMulInt(a, k) == Trim(NatMulAdd(a, k, 0))

RECURSIVE NatAddCarry(_, _, _)
NatAddCarry(a, b, carry) ==
    IF a = <<>> /\ b = <<>> THEN NatOf(carry)
    ELSE LET x == (IF a = <<>> THEN 0 ELSE a[1])
                  + (IF b = <<>> THEN 0 ELSE b[1]) + carry
         IN <<x % 32768>>
            \o NatAddCarry(IF a = <<>> THEN <<>> ELSE Tail(a),
                           IF b = <<>> THEN <<>> ELSE Tail(b),
                           x \div 32768)

NatAdd(a, b) == NatAddCarry(a, b, 0)

RECURSIVE NatMul(_, _)
NatMul(a, b) ==
    IF a = <<>> \/ b = <<>> THEN <<>>
    ELSE NatAdd(NatMulInt(a, b[1]),
                LET rest == NatMul(a, Tail(b))
                IN IF rest = <<>> THEN <<>> ELSE <<0>> \o rest)

\* quotient and remainder of a by q, for 0 < q < 32768
RECURSIVE NatDivInt(_, _)
NatDivInt(a, q) ==
    IF a = <<>> THEN [quot |-> <<>>, rem |-> 0]
    ELSE LET top == NatDivInt(Tail(a), q)
             x == top.rem * 32768 + a[1]
         IN [quot |-> Trim(<<x \div q>> \o top.quot), rem |-> x % q]

RECURSIVE IntBits(_)
IntBits(n) == IF n = 0 THEN 0 ELSE 1 + IntBits(n \div 2)

BitLen(a) == IF a = <<>> THEN 0 ELSE 15 * (Len(a) - 1) + IntBits(a[Len(a)])

ShiftLeft(a, k) ==
    IF a = <<>> THEN <<>>
    ELSE [i \in 1..(k \div 15) |-> 0] \o NatMulInt(a, 2 ^ (k % 15))

\* a shifted right by k >= 1 bits, with what was shifted out: nothing
\* (none), or less than, exactly or more than half a unit (half = -1, 0, 1).
ShiftRight(a, k) ==
    LET n == k \div 15
        low == SubSeq(a, 1, n)
        high == NatDivInt(SubSeq(a, n + 1, Len(a)), 2 ^ (k % 15))
        rem == Trim(low \o <<high.rem>>)
    IN [quot |-> high.quot, none |-> rem = <<>>,
        half |-> NatCmp(rem, ShiftLeft(<<1>>, k - 1))]

\* The double sign * m * 2^e, with 2^52 <= m < 2^53, or m = <<>> for a zero.
Double(sign, m, e) == [sign |-> sign, m |-> m, e |-> e]

\* 0.0
PlusZero == Double(1, <<>>, 0)

\* The double nearest to sign * (n + f) * 2^e, ties to even, where
\* 0 <= f < 1 and `more` says whether f > 0.
RoundNat(sign, n, e, more) ==
    LET len == BitLen(n)
    IN IF n = <<>> THEN Double(sign, <<>>, 0)
       ELSE IF len <= 53
       THEN Double(sign, ShiftLeft(n, 53 - len), e - (53 - len))
       ELSE LET cut == ShiftRight(n, len - 53)
                up == \/ cut.half = 1
                      \/ cut.half = 0 /\ (more \/ cut.quot[1] % 2 = 1)
                m == IF up THEN NatAdd(cut.quot, <<1>>) ELSE cut.quot
            IN IF BitLen(m) = 54
               THEN Double(sign, ShiftRight(m, 1).quot, e + (len - 53) + 1)
               ELSE Double(sign, m, e + (len - 53))

\* The double nearest to p / q, for 0 < q < 32768: an integer sum divided
\* by a count, and the value of a decimal literal.
FromRatio(p, q) ==
    LET d == NatDivInt(ShiftLeft(NatOf(Abs(p)), 75), q)
    IN RoundNat(IF p < 0 THEN -1 ELSE 1, d.quot, -75, d.rem # 0)

\* a * b
FMul(a, b) == RoundNat(a.sign * b.sign, NatMul(a.m, b.m), a.e + b.e, FALSE)

\* a * k and a / q for an integer 0 < k, q < 32768 (an integer this small
\* is a double)
FMulInt(a, k) == RoundNat(a.sign, NatMulInt(a.m, k), a.e, FALSE)

FDivInt(a, q) ==
    LET d == NatDivInt(ShiftLeft(a.m, 30), q)
    IN RoundNat(a.sign, d.quot, a.e - 30, d.rem # 0)

\* -1, 0 or 1 as |a| < |b|, |a| = |b| or |a| > |b|
FMagCmp(a, b) ==
    IF a.m = <<>> \/ b.m = <<>>
    THEN (IF a.m = b.m THEN 0 ELSE IF a.m = <<>> THEN -1 ELSE 1)
    ELSE IF a.e # b.e THEN (IF a.e < b.e THEN -1 ELSE 1)
    ELSE NatCmp(a.m, b.m)

\* -1, 0 or 1 as a < b, a == b or a > b (0.0 == -0.0)
FCmp(a, b) ==
    IF a.m = <<>> /\ b.m = <<>> THEN 0
    ELSE IF a.m = <<>> THEN 0 - b.sign
    ELSE IF b.m = <<>> THEN a.sign
    ELSE IF a.sign # b.sign THEN a.sign
    ELSE a.sign * FMagCmp(a, b)

FGE(a, b) == FCmp(a, b) >= 0
FGT(a, b) == FCmp(a, b) > 0

\* The float a setting held in tenths stands for.
Tenths(x) == FromRatio(x, 10)

\* Fault variant: true_range taken to be tr1 alone.
TrueRangeHighLow(df, i) == df[i].high - df[i].low

\* Fault variant: close.shift(1, fill_value=0), a previous close of 0 for
\* the first row.
TrueRangeZeroFilled(df, i) ==
    LET prev_close == IF i = 1 THEN 0 ELSE df[i - 1].close
    IN Max2(df[i].high - df[i].low,
            Max2(Abs(df[i].high - prev_close), Abs(df[i].low - prev_close)))

\* Row i of true_range: prev_close = close.shift(1) is NaN in row 1, and
\* max(axis=1) skips NaN, so row 1 is high - low.
TrueRange(df, i) ==
    IF i = 1
    THEN df[1].high - df[1].low
    ELSE Max2(df[i].high - df[i].low,
              Max2(Abs(df[i].high - df[i - 1].close),
                   Abs(df[i].low - df[i - 1].close)))

\* The Series true_range of line 94, one row for each row of df.
TrueRangeSeries(df) == [i \in 1..Len(df) |-> TrueRange(df, i)]

RECURSIVE SumTrueRange(_, _, _)
SumTrueRange(df, from, to) ==
    IF from > to THEN 0
    ELSE TrueRange(df, from) + SumTrueRange(df, from + 1, to)

\* true_range.rolling(window=period).mean().iloc[-1], for period >= 1.  With
\* period + 1 rows or more the window holds no NaN and line 99 returns atr.
calculate_atr(df, period) ==
    IF Len(df) < period + 1
    THEN PlusZero
    ELSE FromRatio(SumTrueRange(df, Len(df) - period + 1, Len(df)), period)

\* Fault variant: the ratio of line 114 without its `* 100`.
calculate_atr_ratio(atr_value, current_price, multiplier) ==
    IF current_price <= 0
    THEN PlusZero
    ELSE FDivInt(FMul(atr_value, Tenths(multiplier)), current_price)

\* Lines 109-116, multiplier in tenths: atr_adjusted rounds the product,
\* and line 114 rounds the quotient and then the product with 100.
calculate_atr_percentage(atr_value, current_price, multiplier) ==
    IF current_price <= 0
    THEN PlusZero
    ELSE LET atr_adjusted == FMul(atr_value, Tenths(multiplier))
         IN FMulInt(FDivInt(atr_adjusted, current_price), 100)

\* ------------------------------------------------------------ upstream API


\* exchange_info() payloads: the 'symbols' list of the response.
Info(sym, ct, st) == [symbol |-> sym, contractType |-> ct, status |-> st]

ExchangeInfos ==
    { <<>>,
      << Info("AAAUSDT", "PERPETUAL", "TRADING"),
         Info("BBBUSDT", "PERPETUAL", "TRADING") >>,
      << Info("BTCUSD", "PERPETUAL", "TRADING"),
         Info("AAAUSDT", "PERPETUAL", "TRADING"),
         Info("BBBUSDT", "PERPETUAL", "SETTLING"),
         Info("CCCUSDT", "CURRENT_QUARTER", "TRADING") >> }

EndsWithUSDT(sym) == sym \in {"AAAUSDT", "BBBUSDT", "CCCUSDT"}

RECURSIVE FilterSymbols(_)
FilterSymbols(infos) ==
    IF infos = <<>> THEN <<>>
    ELSE LET h == Head(infos)
             rest == FilterSymbols(Tail(infos))
         IN IF EndsWithUSDT(h.symbol) /\ h.contractType = "PERPETUAL"
               /\ h.status = "TRADING"
            THEN <<h.symbol>> \o rest
            ELSE rest

\* get_active_symbols: ok = FALSE is exchange_info() raising.
get_active_symbols(ok, infos) == IF ok THEN FilterSymbols(infos) ELSE <<>>

Candle(h, l, c) == [high |-> h, low |-> l, close |-> c]

\* Candle histories the exchange may hold for an instrument.
Flat60 == [i \in 1..60 |-> Candle(100, 100, 100)]
Calm60 == [i \in 1..60 |-> Candle(101, 100, 100)]
Wild60 == [i \in 1..60 |-> IF i % 2 = 1 THEN Candle(110, 100, 100)
                                        ELSE Candle(120, 112, 115)]
Short3 == << Candle(102, 100, 101), Candle(104, 100, 102), Candle(104, 100, 102) >>

\* 29 of the last 50 true ranges are 1 and the others 0: at the default
\* settings the percentage is 0.58 * 0.5 / 58 * 100, which in doubles is
\* 0.49999999999999994.
Edge60 == [i \in 1..60 |-> IF i > 31 THEN Candle(59, 58, 58)
                                      ELSE Candle(58, 58, 58)]

Market == {Flat60, Calm60, Wild60, Short3, Edge60}

\* klines(symbol, interval, limit): the most recent `limit` candles.
Klines(history, limit) ==
    IF Len(history) <= limit THEN history
    ELSE SubSeq(history, Len(history) - limit + 1, Len(history))

\* What the upstream API may answer in a behaviour: whether exchange_info()
\* returns, the listings it returns, how a pass of the loop for one symbol
\* goes ("none", "raise", "data" or "late", see ScanOne) and the histories
\* a candle fetch is drawn from.
Upstream ==
    [ok |-> BOOLEAN, infos |-> ExchangeInfos,
     fetches |-> {"none", "raise", "data", "late"}, market |-> Market]

\* An exchange that always answers and lists one instrument, whose history
\* is too short for the default period: every run publishes an empty list.
QuietUpstream ==
    [ok |-> {TRUE},
     infos |-> { << Info("AAAUSDT", "PERPETUAL", "TRADING") >> },
     fetches |-> {"data"}, market |-> {Short3}]

\* An exchange that always answers and lists one instrument, which
\* qualifies: every run publishes one result.
SteadyUpstream ==
    [ok |-> {TRUE},
     infos |-> { << Info("AAAUSDT", "PERPETUAL", "TRADING") >> },
     fetches |-> {"data"}, market |-> {Wild60}]



\* A JSON value of a request body; a number is held in tenths.
Absent == [k |-> "absent", v |-> 0, s |-> ""]
Null == [k |-> "null", v |-> 0, s |-> ""]
Num(v) == [k |-> "num", v |-> v, s |-> ""]
Str(s) == [k |-> "str", v |-> 0, s |-> s]

\* The `interval` values the exchange knows.
ValidIntervals == {Str("1m"), Str("1h")}

\* get_kline_data: None (here ok = FALSE) when the upstream call raises,
\* which it does for an `interval` that is not one the exchange knows.
KlineOk(ok, interval) == ok /\ interval \in ValidIntervals

\* ------------------------------------------------------ scan engine (pure)

\* The dict appended at lines 153-161.
ScanResult(symbol, price, atr, pct, period, multiplier) ==
    [symbol |-> symbol, current_price |-> price, atr_value |-> atr,
     atr_percentage |-> pct, atr_period |-> period,
     atr_multiplier |-> multiplier]

\* Fault variant: the loop body reads scan_data['scan_settings'] itself.
LoopSettingsLive(args, store) == store

\* Which settings one pass of the loop body works with: the arguments
\* scan_symbols was called with.
LoopSettings(args, store) == args

\* Fault variant: `>` for the `>=` of line 152.
MeetsCriteriaStrictly(atr_percentage, min_atr_percentage) ==
    FGT(atr_percentage, Tenths(min_atr_percentage))

\* atr_percentage >= min_atr_percentage, line 152 (the threshold in tenths).
MeetsCriteria(atr_percentage, min_atr_percentage) ==
    FGE(atr_percentage, Tenths(min_atr_percentage))

\* One pass of the loop body (lines 136-169) for `symbol`.
\*   fetch = "none":  get_kline_data returned None
\*   fetch = "raise": an exception inside the try block before line 161
\*                    (the print of line 137), caught at line 167
\*   fetch = "data":  the exchange holds `history` for the symbol
\*   fetch = "late":  as "data", and the print of line 162 raises when the
\*                    pass reaches it: line 161 has appended, line 165 is
\*                    skipped
\* Gives the results list after the pass, whether the pass reached the
\* time.sleep(0.1) of line 165, and how the pass ended: as `fetch` says,
\* or "data" when fetch = "late" and line 162 was not reached.
ScanOne(symbol, args, fetch, history, results) ==
    LET df == Klines(history, args.atr_period + 50)
        got == fetch \in {"data", "late"} /\ KlineOk(TRUE, args.interval)
        atr == calculate_atr(df, args.atr_period)
        price == df[Len(df)].close
        pct == calculate_atr_percentage(atr, price, args.atr_multiplier)
    IN IF fetch = "raise"
       THEN [results |-> results, paced |-> FALSE, ended |-> "raise"]
       ELSE IF ~got \/ Len(df) < args.atr_period + 1
       THEN [results |-> results, paced |-> FALSE,
             ended |-> IF fetch = "none" THEN "none" ELSE "data"]
       ELSE IF MeetsCriteria(pct, args.min_atr_percentage)
       THEN [results |-> Append(results,
                 ScanResult(symbol, price, atr, pct, args.atr_period,
                            args.atr_multiplier)),
             paced |-> fetch = "data", ended |-> fetch]
       ELSE [results |-> results, paced |-> TRUE, ended |-> "data"]

\* results.sort(key=lambda x: x['atr_percentage'], reverse=True): stable,
\* so entries with equal keys keep their order.
RECURSIVE InsertDesc(_, _)
InsertDesc(sorted, x) ==
    IF sorted = <<>> THEN <<x>>
    ELSE IF FGT(x.atr_percentage, Head(sorted).atr_percentage)
    THEN <<x>> \o sorted
    ELSE <<Head(sorted)>> \o InsertDesc(Tail(sorted), x)

RECURSIVE SortDesc(_)
SortDesc(rs) ==
    IF rs = <<>> THEN <<>>
    ELSE InsertDesc(SortDesc(SubSeq(rs, 1, Len(rs) - 1)), rs[Len(rs)])

\* ----------------------------------------------------- request bodies (pure)

\* The decimal texts the model's bodies use, and the number each denotes.
IsFloatText(s) == s \in {"2", "0.3"}
IsIntText(s) == s \in {"2"}
TextTenths(s) == IF s = "2" THEN 20 ELSE 3

\* float(x) of a JSON value: defined for numbers and decimal texts.
FloatOk(x) == x.k = "num" \/ (x.k = "str" /\ IsFloatText(x.s))
ToFloat(x) == IF x.k = "num" THEN x.v ELSE TextTenths(x.s)

\* int(x) of a JSON value: truncates a number toward zero, parses an
\* integer text, raises ValueError for any other text.
IntOk(x) == x.k = "num" \/ (x.k = "str" /\ IsIntText(x.s))
Trunc(v) == IF v >= 0 THEN v \div 10 ELSE 0 - ((0 - v) \div 10)
ToInt(x) == IF x.k = "num" THEN Trunc(x.v) ELSE Trunc(TextTenths(x.s))

Body(min, per, mul, itv) ==
    [min_atr_percentage |-> min, atr_period |-> per,
     atr_multiplier |-> mul, interval |-> itv]

UpdateBodies ==
    { Body(Absent, Absent, Absent, Absent),
      Body(Absent, Num(20), Absent, Absent),
      Body(Num(3), Str("abc"), Absent, Absent),
      Body(Absent, Num(25), Absent, Absent),
      Body(Absent, Absent, Str("2"), Str("1h")),
      Body(Absent, Absent, Absent, Str("bogus")),
      Body(Num(0), Absent, Absent, Absent),
      Body(Absent, Absent, Null, Absent),
      Body(Absent, Absent, Absent, Null),
      Body(Absent, Absent, Absent, Num(20)) }

Settings(min, per, mul, itv) ==
    [min_atr_percentage |-> min, atr_period |-> per,
     atr_multiplier |-> mul, interval |-> itv]

\* scan_data['scan_settings'] as constructed at lines 178-183.
DefaultSettings == Settings(5, 50, 5, Str("1m"))

\* The error response carries a message and no settings.
NoSettings == Settings(0, 0, 0, Absent)

\* Lines 261-268, one `if` each.  r = [st, ok]: the settings so far, and
\* whether no conversion has raised yet (a raise skips what follows).
SetMin(r, body) ==
    IF ~r.ok \/ body.min_atr_percentage = Absent THEN r
    ELSE IF FloatOk(body.min_atr_percentage)
    THEN [r EXCEPT !.st.min_atr_percentage = ToFloat(body.min_atr_percentage)]
    ELSE [r EXCEPT !.ok = FALSE]

SetPeriod(r, body) ==
    IF ~r.ok \/ body.atr_period = Absent THEN r
    ELSE IF IntOk(body.atr_period)
    THEN [r EXCEPT !.st.atr_period = ToInt(body.atr_period)]
    ELSE [r EXCEPT !.ok = FALSE]

\* Fault variant: line 266 assigns the key of line 262.
SetMultiplierWrongKey(r, body) ==
    IF ~r.ok \/ body.atr_multiplier = Absent THEN r
    ELSE IF FloatOk(body.atr_multiplier)
    THEN [r EXCEPT !.st.min_atr_percentage = ToFloat(body.atr_multiplier)]
    ELSE [r EXCEPT !.ok = FALSE]

SetMultiplier(r, body) ==
    IF ~r.ok \/ body.atr_multiplier = Absent THEN r
    ELSE IF FloatOk(body.atr_multiplier)
    THEN [r EXCEPT !.st.atr_multiplier = ToFloat(body.atr_multiplier)]
    ELSE [r EXCEPT !.ok = FALSE]

\* Line 268 stores the JSON value as it is: a text, a number or null.
SetInterval(r, body) ==
    IF ~r.ok \/ body.interval = Absent THEN r
    ELSE [r EXCEPT !.st.interval = body.interval]

\* The keys of lines 261-267, in the order of their `if`s.
Fields == <<"min_atr_percentage", "atr_period", "atr_multiplier", "interval">>

\* The `if` of field k: its test, conversion and store.
SetField(k, r, body) ==
    IF k = 1 THEN SetMin(r, body)
    ELSE IF k = 2 THEN SetPeriod(r, body)
    ELSE IF k = 3 THEN SetMultiplier(r, body)
    ELSE SetInterval(r, body)

\* The first `if` at or after the k-th whose key the body holds; 5 (the
\* return of line 270) when there is none.
RECURSIVE NextProvided(_, _)
NextProvided(body, k) ==
    IF k > 4 THEN 5
    ELSE IF body[Fields[k]] # Absent THEN k
    ELSE NextProvided(body, k + 1)

\* ------------------------------------------------------------------- state

VARIABLES
    results,        \* scan_data['results']
    last_update,    \* scan_data['last_update'] (NoTime is None)
    scanning,       \* scan_data['scanning']
    scan_settings,  \* scan_data['scan_settings']
    results_by,     \* the number of the run that assigned results
    update_by,      \* the number of the run that assigned last_update
    nruns,          \* scan runs begun so far
    pc,             \* where each thread is
    loc,            \* the locals of each thread's perform_scan call, with
                    \* the number of the run,
                    \* the update_settings requests that had been answered
                    \* when the run began, whether
                    \* exchange_info() answered, how the last pass of the
                    \* loop went, whether the run has executed line 206,
                    \* what its datetime.now() of line 207 returned
                    \* and, while the run evaluates its arguments, every
                    \* value the stored settings have had since it began;
                    \* until line 206, for the threads started at load
                    \* time, the threads whose runs began before this one
                    \* and may still execute line 206, and whether a run
                    \* that began later has executed it
    wakes,          \* times the periodic loop's time.sleep(3600) has
                    \* returned
    rpc,            \* where the get_scan_data handler is
    resp,           \* the response get_scan_data is building / has sent,
                    \* with notes on the store when the results were read
    fpc,            \* where the force_scan handler is
    force_resp,     \* status of the last force_scan response
    upc,            \* where the update_settings handler is: 0 when no
                    \* request is being handled, k in 1..4 before the `if`
                    \* of Fields[k], 5 before line 270
    upd_body,       \* body of the last update_settings request
    upd_old,        \* the stored settings when that request arrived
    upd_resp,       \* response to it
    nupd,           \* update_settings requests received
    epc,            \* where the export_symbols handler is
    exp_resp,       \* the response export_symbols has sent
    calc            \* a direct call of the indicator functions: its
                    \* arguments and what it returned

store == <<results, last_update, scanning, scan_settings, results_by,
           update_by>>
threads == <<nruns, pc, loc, wakes>>
reader == <<rpc, resp>>
forcer == <<fpc, force_resp>>
updater == <<upc, upd_body, upd_old, upd_resp, nupd>>
requests == <<forcer, updater>>
exporter == <<epc, exp_resp>>
vars == <<store, threads, reader, requests, exporter, calc>>

\* How the last pass of the loop went: how it ended (see ScanOne) and,
\* when the exchange answered, the history it answered from.
NoOutcome == [fetch |-> "", history |-> <<>>]
Outcome(ended, history) ==
    [fetch |-> ended,
     history |-> IF ended \in {"data", "late"} THEN history ELSE <<>>]

\* 'last_update': None
NoTime == 0

NoLocals ==
    [run |-> 0, nupd0 |-> 0, args |-> NoSettings, listed |-> TRUE, symbols |-> <<>>,
     i |-> 0, results |-> <<>>, last |-> NoOutcome, paced |-> TRUE,
     published |-> FALSE, now |-> NoTime, seen |-> {}, before |-> {},
     overtaken |-> FALSE]

\* The response being built, with two notes: the run that had stored the
\* results line 236 read, and the run that had stored the last_update line
\* 237 read.
NoResponse ==
    [results |-> <<>>, last_update |-> NoTime, scanning |-> FALSE,
     total_symbols |-> 0, scan_settings |-> NoSettings,
     results_run |-> Nobody, update_run |-> Nobody]

\* No update_settings response yet.
NoUpdate == [status |-> "none", settings |-> NoSettings]

\* No export_symbols response yet.
NoExport == [symbols |-> "", count |-> 0]

\* No direct call of an indicator function.  fn is the function to
\* call, calls the number of calls made, returned what the last call
\* returned and before what the call before it returned; true_range is
\* the local of that name of a calculate_atr call that reached line 94.
NoCall ==
    [fn |-> "none", calls |-> 0, df |-> <<>>, period |-> 0,
     atr_value |-> PlusZero, current_price |-> 0, multiplier |-> 0,
     returned |-> PlusZero, before |-> PlusZero, true_range |-> <<>>]

\* The state after the module is loaded (lines 174-186, 224-225) and, when
\* it runs as the main module, after line 754: the periodic thread exists,
\* and so does the startup thread; neither has run a statement yet.
Loaded ==
    /\ results = <<>>
    /\ last_update = NoTime
    /\ scanning = FALSE
    /\ scan_settings = DefaultSettings
    /\ results_by = Nobody
    /\ update_by = Nobody
    /\ nruns = 0
    /\ \E as_main \in BOOLEAN :
         pc = [t \in Threads |->
                 IF t = Periodic THEN "start"
                 ELSE IF t = Startup THEN (IF as_main THEN "start" ELSE "absent")
                 ELSE "idle"]
    /\ loc = [t \in Threads |-> NoLocals]
    /\ wakes = 0
    /\ rpc = "idle"
    /\ resp = NoResponse
    /\ fpc = "idle"
    /\ force_resp = "none"
    /\ upc = 0
    /\ upd_body = Body(Absent, Absent, Absent, Absent)
    /\ upd_old = DefaultSettings
    /\ upd_resp = NoUpdate
    /\ nupd = 0
    /\ epc = "idle"
    /\ exp_resp = NoExport

Init == Loaded /\ calc = NoCall

\* Between `scan_data['scanning'] = True` and the run's own last
\* `scan_data['scanning'] = False` (line 208, or line 214 in the handler).
InBody(t) ==
    pc[t] \in {"rd_min", "rd_per", "rd_mul", "rd_int", "list", "found",
               "loop",
               "stamp", "store", "clear", "except"}

\* A thread that exists and has not finished its perform_scan call.
Live(t) == pc[t] = "start" \/ InBody(t)

\* The bound on runs: one more may be handed to a thread.  A thread that
\* force_scan is about to start (line 249) counts as one.
CanStart ==
    nruns + Cardinality({t \in Threads : pc[t] = "start"})
          + (IF fpc = "f249" THEN 1 ELSE 0) < MaxRuns

\* Where a thread goes when perform_scan returns: the loop sleeps (line
\* 221), the startup thread ends, and the slot of a force-scan thread that
\* has ended is free again.
AfterScan(t) ==
    IF t = Periodic THEN "sleep" ELSE IF t = Startup THEN "done" ELSE "idle"

\* Where a thread goes when an exception leaves perform_scan: it leaves
\* schedule_scans too (no handler at lines 218-221), so the periodic
\* thread ends as the others do.
AfterEscape(t) == IF t = Periodic THEN "dead" ELSE AfterScan(t)

\* ------------------------------------------------------------ perform_scan

\* A run that may still execute line 206.
Unpublished(t) ==
    pc[t] \in {"rd_min", "rd_per", "rd_mul", "rd_int", "list", "found",
               "loop"}

\* The threads started when the module is loaded and run (lines 224-225
\* and 754): the order in which runs begin is noted among these.
AtLoad == {Periodic, Startup}

\* The runs that had begun and might still execute line 206 when the run
\* of t begins.
BeganBefore(t) ==
    IF t \in AtLoad THEN {u \in AtLoad : Unpublished(u)} ELSE {}

\* The update_settings requests that have been answered.
Answered == IF upc = 0 THEN nupd ELSE nupd - 1

\* Line 193.
BeginScan(t) ==
    /\ pc[t] = "start"
    /\ scanning' = TRUE
    /\ nruns' = nruns + 1
    /\ loc' = [loc EXCEPT ![t] =
                 [NoLocals EXCEPT !.run = nruns + 1,
                                  !.nupd0 = Answered,
                                  !.seen = {scan_settings},
                                  !.before = BeganBefore(t)]]
    /\ pc' = [pc EXCEPT ![t] = "rd_min"]
    /\ UNCHANGED <<results, last_update, scan_settings, results_by,
                   update_by, wakes, reader, requests, exporter,
                   calc>>

\* Lines 197-200: the four arguments are evaluated one after the other.
ReadMin(t) ==
    /\ pc[t] = "rd_min"
    /\ loc' = [loc EXCEPT ![t].args.min_atr_percentage =
                              scan_settings.min_atr_percentage]
    /\ pc' = [pc EXCEPT ![t] = "rd_per"]
    /\ UNCHANGED <<store, nruns, wakes, reader, requests, exporter,
                   calc>>

ReadPeriod(t) ==
    /\ pc[t] = "rd_per"
    /\ loc' = [loc EXCEPT ![t].args.atr_period = scan_settings.atr_period]
    /\ pc' = [pc EXCEPT ![t] = "rd_mul"]
    /\ UNCHANGED <<store, nruns, wakes, reader, requests, exporter,
                   calc>>

ReadMultiplier(t) ==
    /\ pc[t] = "rd_mul"
    /\ loc' = [loc EXCEPT ![t].args.atr_multiplier =
                              scan_settings.atr_multiplier]
    /\ pc' = [pc EXCEPT ![t] = "rd_int"]
    /\ UNCHANGED <<store, nruns, wakes, reader, requests, exporter,
                   calc>>

ReadInterval(t) ==
    /\ pc[t] = "rd_int"
    /\ loc' = [loc EXCEPT ![t].args.interval = scan_settings.interval,
                          ![t].seen = {}]
    /\ pc' = [pc EXCEPT ![t] = "list"]
    /\ UNCHANGED <<store, nruns, wakes, reader, requests, exporter,
                   calc>>

\* scan_symbols, lines 129-130, with get_active_symbols up to its return
\* (line 38) or to the entry of its handler (line 40), which will return
\* the empty list.  `up` is what the upstream API may answer.
ListSymbols(t, up) ==
    /\ pc[t] = "list"
    /\ \E ok \in up.ok, infos \in up.infos :
         loc' = [loc EXCEPT ![t].symbols = get_active_symbols(ok, infos),
                            ![t].listed = ok,
                            ![t].i = 1,
                            ![t].results = <<>>]
    /\ pc' = [pc EXCEPT ![t] = "found"]
    /\ UNCHANGED <<store, nruns, wakes, reader, requests, exporter,
                   calc>>

\* The print of line 41, when the listing failed, and the print of line
\* 131, returning; line 133.
AnnounceSymbols(t) ==
    /\ pc[t] = "found"
    /\ pc' = [pc EXCEPT ![t] = "loop"]
    /\ UNCHANGED <<store, nruns, loc, wakes, reader, requests, exporter,
                   calc>>

\* The index of the next pass: the loop goes on to the next symbol however
\* the pass ended (lines 142 and 169 `continue`, or the end of the body).
IndexAfter(ended, i, n) == i + 1

\* scan_symbols, lines 135-169: one pass of the loop.
ProcessSymbol(t, up) ==
    /\ pc[t] = "loop"
    /\ loc[t].i <= Len(loc[t].symbols)
    /\ \E fetch \in up.fetches, history \in up.market :
         LET r == ScanOne(loc[t].symbols[loc[t].i],
                          LoopSettings(loc[t].args, scan_settings),
                          fetch, history, loc[t].results)
         IN loc' = [loc EXCEPT ![t].results = r.results,
                               ![t].paced = r.paced,
                               ![t].last = Outcome(r.ended, history),
                               ![t].i = IndexAfter(r.ended, loc[t].i,
                                                   Len(loc[t].symbols))]
    /\ UNCHANGED <<store, nruns, pc, wakes, reader, requests,
                   exporter, calc>>

\* Fault variant: line 204 left out.
PublishedUnsorted(rs) == rs

\* What line 206 stores: the list scan_symbols returned (line 171), sorted
\* in place at line 204.
Published(rs) == SortDesc(rs)

\* Lines 171, 204, 206.  The runs that began before this one and may
\* still execute line 206 are noted as overtaken, and this run is no
\* longer one that may execute it.
Publish(t) ==
    /\ pc[t] = "loop"
    /\ loc[t].i > Len(loc[t].symbols)
    /\ results' = Published(loc[t].results)
    /\ results_by' = loc[t].run
    /\ pc' = [pc EXCEPT ![t] = "stamp"]
    /\ loc' = [u \in Threads |->
                 IF u = t
                 THEN [loc[t] EXCEPT !.published = TRUE, !.before = {},
                                     !.overtaken = FALSE]
                 ELSE [loc[u] EXCEPT
                         !.overtaken = @ \/ u \in loc[t].before,
                         !.before = @ \ {t}]]
    /\ UNCHANGED <<last_update, scanning, scan_settings, update_by, nruns,
                   wakes,
                   reader, requests, exporter, calc>>

\* What datetime.now() may return: the local wall clock, which a change
\* of the zone offset or a setting of the clock takes back, so that a
\* reading may be later than, equal to or earlier than one taken before.
Readings == 1..MaxTime

\* Line 207, its right-hand side: the call of datetime.now().
ReadClock(t) ==
    /\ pc[t] = "stamp"
    /\ \E reading \in Readings : loc' = [loc EXCEPT ![t].now = reading]
    /\ pc' = [pc EXCEPT ![t] = "store"]
    /\ UNCHANGED <<store, nruns, wakes, reader, requests, exporter, calc>>

\* Line 207, the store of the reading the run took.
Stamp(t) ==
    /\ pc[t] = "store"
    /\ last_update' = loc[t].now
    /\ update_by' = loc[t].run
    /\ pc' = [pc EXCEPT ![t] = "clear"]
    /\ UNCHANGED <<results, scanning, scan_settings, results_by, nruns,
                   loc, wakes, reader, requests, exporter, calc>>

\* The flag a run leaves behind when it ends.
FlagAtEnd == FALSE

\* Lines 208-210, and the return.
ClearFlag(t) ==
    /\ pc[t] = "clear"
    /\ scanning' = FlagAtEnd
    /\ pc' = [pc EXCEPT ![t] = AfterScan(t)]
    /\ loc' = [loc EXCEPT ![t] = NoLocals]
    /\ UNCHANGED <<results, last_update, scan_settings, results_by,
                   update_by, nruns, wakes, reader, requests,
                   exporter, calc>>

\* The flag the failure handler leaves behind (line 214).
FlagAfterFailure == FALSE

\* The handler swallows the exception: perform_scan returns as usual.
AfterFailure(t) == AfterScan(t)

\* Where in the try block of lines 192-210 a statement may raise: the
\* print of line 194 ("rd_min"); in scan_symbols, outside its try block,
\* the print of line 129 ("list") and the prints of lines 41 and 131
\* ("found"); in the loop, the print of line 168 in the handler of a pass
\* that raised ("loop"); and, after line 208, the print of line 210
\* ("clear").
MayRaise == {"rd_min", "list", "found", "loop", "clear"}

\* A statement of the try block raises: control goes to line 212 and the
\* frame of scan_symbols is gone.  In the loop that is a pass for the
\* next instrument whose body raises (its print of line 137, or lines
\* 140-162) and whose handler's print (line 168) raises as well.  At
\* "clear" line 208 has run before line 210 raises.  The run will not
\* execute line 206 any more.
Raise(t) ==
    /\ pc[t] \in MayRaise
    /\ pc[t] = "loop" => loc[t].i <= Len(loc[t].symbols)
    /\ scanning' = IF pc[t] = "clear" THEN FlagAtEnd ELSE scanning
    /\ pc' = [pc EXCEPT ![t] = "except"]
    /\ loc' = [u \in Threads |->
                 IF u = t
                 THEN [NoLocals EXCEPT !.published = loc[t].published]
                 ELSE [loc[u] EXCEPT !.before = @ \ {t}]]
    /\ UNCHANGED <<results, last_update, scan_settings, results_by,
                   update_by, nruns, wakes, reader, requests,
                   exporter, calc>>

\* Lines 212-214, the print of line 213 returning.
ScanFail(t) ==
    /\ pc[t] = "except"
    /\ scanning' = FlagAfterFailure
    /\ pc' = [pc EXCEPT ![t] = AfterFailure(t)]
    /\ loc' = [loc EXCEPT ![t] = NoLocals]
    /\ UNCHANGED <<results, last_update, scan_settings, results_by,
                   update_by, nruns, wakes, reader, requests,
                   exporter, calc>>

\* Lines 212-213, the print of line 213 raising: line 214 does not run and
\* the exception leaves perform_scan.
ScanFailRaise(t) ==
    /\ pc[t] = "except"
    /\ pc' = [pc EXCEPT ![t] = AfterEscape(t)]
    /\ loc' = [loc EXCEPT ![t] = NoLocals]
    /\ UNCHANGED <<store, nruns, wakes, reader, requests, exporter,
                   calc>>

\* schedule_scans, lines 218-221: time.sleep(3600) returns and the loop
\* calls perform_scan again.
Wake ==
    /\ pc[Periodic] = "sleep"
    /\ wakes < MaxWakes
    /\ CanStart
    /\ pc' = [pc EXCEPT ![Periodic] = "start"]
    /\ wakes' = wakes + 1
    /\ UNCHANGED <<store, nruns, loc, reader, requests, exporter,
                   calc>>

\* ---------------------------------------------------------- HTTP handlers

\* get_scan_data, line 236.  A new request starts once the last is sent.
GetResults ==
    /\ rpc \in {"idle", "sent"}
    /\ resp' = [NoResponse EXCEPT !.results = results,
                                  !.results_run = results_by]
    /\ rpc' = "r237"
    /\ UNCHANGED <<store, threads, requests, exporter, calc>>

\* Line 237.
GetLastUpdate ==
    /\ rpc = "r237"
    /\ resp' = [resp EXCEPT !.last_update = last_update,
                             !.update_run = update_by]
    /\ rpc' = "r238"
    /\ UNCHANGED <<store, threads, requests, exporter, calc>>

\* Line 238.
GetScanning ==
    /\ rpc = "r238"
    /\ resp' = [resp EXCEPT !.scanning = scanning]
    /\ rpc' = "r239"
    /\ UNCHANGED <<store, threads, requests, exporter, calc>>

\* Line 239.
GetTotal ==
    /\ rpc = "r239"
    /\ resp' = [resp EXCEPT !.total_symbols = Len(results)]
    /\ rpc' = "r240"
    /\ UNCHANGED <<store, threads, requests, exporter, calc>>

\* Lines 240-242: the settings dict is serialised as it is when jsonify runs.
Respond ==
    /\ rpc = "r240"
    /\ resp' = [resp EXCEPT !.scan_settings = scan_settings]
    /\ rpc' = "sent"
    /\ UNCHANGED <<store, threads, requests, exporter, calc>>

\* The test of line 247.
Idle == ~scanning

\* force_scan, line 247: the read of the flag.  A new request starts once
\* the last is answered.
ForceTest ==
    /\ fpc = "idle"
    /\ IF Idle THEN CanStart /\ fpc' = "f249" ELSE fpc' = "f252"
    /\ UNCHANGED <<store, threads, reader, force_resp, updater, exporter,
                   calc>>

\* Line 249: Thread.start() returns once the new thread exists; that
\* thread runs line 193 and what follows whenever it is scheduled, before
\* line 250 or after.  The new thread takes the lowest free slot.
ForceStart ==
    /\ fpc = "f249"
    /\ \E t \in ForceThreads :
         /\ pc[t] = "idle"
         /\ \A u \in ForceThreads : u < t => pc[u] # "idle"
         /\ pc' = [pc EXCEPT ![t] = "start"]
    /\ fpc' = "f250"
    /\ UNCHANGED <<store, nruns, loc, wakes, reader, force_resp,
                   updater, exporter, calc>>

\* Line 250.
ForceAccept ==
    /\ fpc = "f250"
    /\ force_resp' = "scan_started"
    /\ fpc' = "idle"
    /\ UNCHANGED <<store, threads, reader, updater, exporter, calc>>

\* Line 252.
ForceReject ==
    /\ fpc = "f252"
    /\ force_resp' = "scan_already_running"
    /\ fpc' = "idle"
    /\ UNCHANGED <<store, threads, reader, updater, exporter, calc>>

\* force_scan, lines 245-252: the steps of the handler.
ForceScan == ForceTest \/ ForceStart \/ ForceAccept \/ ForceReject

\* A run that is evaluating the arguments of lines 197-200.
Evaluating(t) == pc[t] \in {"rd_min", "rd_per", "rd_mul", "rd_int"}

\* update_settings, lines 257-259: a request arrives and request.json is read.
\* The handler is cut at its stores to scan_settings and at its read of
\* them for the response; the tests of lines 261-267 touch the body only.
UpdateArrive(bodies) ==
    /\ upc = 0
    /\ nupd < MaxUpdates
    /\ \E body \in bodies :
         /\ upd_body' = body
         /\ upc' = NextProvided(body, 1)
    /\ upd_old' = scan_settings
    /\ upd_resp' = NoUpdate
    /\ nupd' = nupd + 1
    /\ UNCHANGED <<store, threads, reader, forcer, exporter, calc>>

\* One of lines 262, 264, 266, 268: the conversion of the value and the
\* store, or the conversion raising and lines 272-273 answering.  Every
\* run that is evaluating its arguments has the new stored settings noted
\* in its `seen`.
UpdateStore ==
    /\ upc \in 1..4
    /\ LET r == SetField(upc, [st |-> scan_settings, ok |-> TRUE], upd_body)
       IN /\ scan_settings' = r.st
          /\ upc' = IF r.ok THEN NextProvided(upd_body, upc + 1) ELSE 0
          /\ upd_resp' = IF r.ok THEN upd_resp
                         ELSE [status |-> "error", settings |-> NoSettings]
          /\ loc' = [t \in Threads |->
                       IF Evaluating(t)
                       THEN [loc[t] EXCEPT !.seen = @ \cup {r.st}]
                       ELSE loc[t]]
    /\ UNCHANGED <<results, last_update, scanning, results_by, update_by,
                   nruns, pc, wakes, reader, forcer, upd_body,
                   upd_old, nupd, exporter, calc>>

\* Line 270: the response carries the settings as they are stored now.
UpdateRespond ==
    /\ upc = 5
    /\ upd_resp' = [status |-> "settings_updated",
                    settings |-> scan_settings]
    /\ upc' = 0
    /\ UNCHANGED <<store, threads, reader, forcer, upd_body, upd_old, nupd,
                   exporter, calc>>

\* update_settings, lines 255-273: the steps of the handler.
UpdateSettings(bodies) == UpdateArrive(bodies) \/ UpdateStore \/ UpdateRespond

\* Fault variant: the ".P" suffix of line 287 left out.
binance_format_bare(symbol) == "BINANCE:" \o symbol

\* f"BINANCE:{symbol}.P", line 287.
binance_format(symbol) == "BINANCE:" \o symbol \o ".P"

\* ','.join(symbol_list), line 291.
RECURSIVE JoinComma(_)
JoinComma(list) ==
    IF list = <<>> THEN ""
    ELSE IF Len(list) = 1 THEN list[1]
    ELSE list[1] \o "," \o JoinComma(Tail(list))

\* Lines 280-294: the response built from the list read at line 281.
Exported(rs) ==
    LET sorted == SortDesc(rs)
        symbol_list == [k \in 1..Len(sorted) |->
                          binance_format(sorted[k].symbol)]
    IN [symbols |-> JoinComma(symbol_list), count |-> Len(symbol_list)]

\* export_symbols, lines 277-278: the first read of scan_data['results'].
\* A new request starts once the last is answered.
ExportTest ==
    /\ epc \in {"idle", "sent"}
    /\ IF results = <<>>
       THEN /\ exp_resp' = [symbols |-> "", count |-> 0]
            /\ epc' = "sent"
       ELSE /\ exp_resp' = exp_resp
            /\ epc' = "e281"
    /\ UNCHANGED <<store, threads, reader, requests, calc>>

\* export_symbols, lines 281-294: the second read, and the response.
ExportBuild ==
    /\ epc = "e281"
    /\ exp_resp' = Exported(results)
    /\ epc' = "sent"
    /\ UNCHANGED <<store, threads, reader, requests, calc>>

\* --------------------------------------------- indicator functions, called

\* Candles, series, periods, ATR values, prices and multipliers (in
\* tenths) the indicator functions are called with.  9.5 at price 50 with
\* multiplier 1.5, and 7.0 at price 100 with multiplier 0.5, are calls
\* whose three roundings miss the exact quotient.
CallCandles ==
    { Candle(10, 10, 10), Candle(12, 10, 11), Candle(20, 18, 19),
      Candle(5, 4, 4) }
CallSeries == UNION { [1..n -> CallCandles] : n \in 0..MaxLen }
CallPeriods == 1..MaxPeriod
CallAtrValues ==
    { PlusZero, FromRatio(3, 2), FromRatio(7, 1), FromRatio(19, 2) }
CallPrices == { -1, 0, 1, 2, 50, 100 }
CallMultipliers == { -5, 0, 5, 15 }

\* The calls that may be made.
Calls ==
    { [NoCall EXCEPT !.fn = "calculate_atr", !.df = df, !.period = period] :
        df \in CallSeries, period \in CallPeriods }
    \cup
    { [NoCall EXCEPT !.fn = "calculate_atr_percentage", !.atr_value = a,
                     !.current_price = price, !.multiplier = m] :
        a \in CallAtrValues, price \in CallPrices, m \in CallMultipliers }

\* scanner.calculate_atr(df, period)
CallATR ==
    /\ calc.fn = "calculate_atr"
    /\ calc.calls = 0
    /\ calc' = [calc EXCEPT
                  !.calls = 1,
                  !.true_range = IF Len(calc.df) < calc.period + 1
                                 THEN <<>>
                                 ELSE TrueRangeSeries(calc.df),
                  !.returned = calculate_atr(calc.df, calc.period)]
    /\ UNCHANGED <<store, threads, reader, requests, exporter>>

\* scanner.calculate_atr_percentage(atr_value, current_price, multiplier),
\* once and then once more with the same arguments.
CallPercentage ==
    /\ calc.fn = "calculate_atr_percentage"
    /\ calc.calls < 2
    /\ calc' = [calc EXCEPT
                  !.calls = calc.calls + 1,
                  !.before = calc.returned,
                  !.returned = calculate_atr_percentage(
                      calc.atr_value, calc.current_price, calc.multiplier)]
    /\ UNCHANGED <<store, threads, reader, requests, exporter>>

\* ----------------------------------------------------------- specification

RunStep(t, up) ==
    \/ BeginScan(t)
    \/ ReadMin(t)
    \/ ReadPeriod(t)
    \/ ReadMultiplier(t)
    \/ ReadInterval(t)
    \/ ListSymbols(t, up)
    \/ AnnounceSymbols(t)
    \/ ProcessSymbol(t, up)
    \/ Publish(t)
    \/ ReadClock(t)
    \/ Stamp(t)
    \/ ClearFlag(t)

\* The whole process.
Next ==
    \/ \E t \in Threads : RunStep(t, Upstream)
    \/ \E t \in Threads : Raise(t)
    \/ \E t \in Threads : ScanFail(t)
    \/ \E t \in Threads : ScanFailRaise(t)
    \/ Wake
    \/ GetResults
    \/ GetLastUpdate
    \/ GetScanning
    \/ GetTotal
    \/ Respond
    \/ ForceScan
    \/ UpdateSettings(UpdateBodies)
    \/ ExportTest
    \/ ExportBuild

Spec == Init /\ [][Next]_vars

\* The state space of Spec is beyond exhaustive search; the claims are
\* checked under the restrictions of it below, each of which keeps every
\* action its claims are about and leaves the others out.

\* The module imported (by a WSGI server, say), not run as the main
\* module: there is no startup thread.
ImportedInit == Init /\ pc[Startup] = "absent"

\* Scheduling: every thread and force_scan, against QuietUpstream.
SchedNext ==
    \/ \E t \in Threads : RunStep(t, QuietUpstream)
    \/ \E t \in Threads : Raise(t)
    \/ \E t \in Threads : ScanFail(t)
    \/ \E t \in Threads : ScanFailRaise(t)
    \/ Wake
    \/ ForceScan

SchedSpec == Init /\ [][SchedNext]_vars

\* Reading: the periodic and startup threads and get_scan_data, against
\* SteadyUpstream.
ReadNext ==
    \/ \E t \in {Periodic, Startup} : RunStep(t, SteadyUpstream)
    \/ \E t \in {Periodic, Startup} : Raise(t)
    \/ \E t \in {Periodic, Startup} : ScanFail(t)
    \/ \E t \in {Periodic, Startup} : ScanFailRaise(t)
    \/ Wake
    \/ GetResults
    \/ GetLastUpdate
    \/ GetScanning
    \/ GetTotal
    \/ Respond

ReadSpec == Init /\ [][ReadNext]_vars

\* Scanning: the first run of the periodic thread against the whole
\* Upstream, and update_settings with the bodies that change what a scan
\* works with.
ScanBodies ==
    { Body(Absent, Num(20), Absent, Absent),
      Body(Absent, Absent, Str("2"), Str("1h")),
      Body(Absent, Absent, Absent, Str("bogus")),
      Body(Num(0), Absent, Absent, Absent) }

ScanNext ==
    \/ RunStep(Periodic, Upstream)
    \/ Raise(Periodic)
    \/ ScanFail(Periodic)
    \/ ScanFailRaise(Periodic)
    \/ UpdateSettings(ScanBodies)

ScanSpec == ImportedInit /\ [][ScanNext]_vars

\* Updating: update_settings with every body, while the periodic thread
\* scans against SteadyUpstream.
UpdateNext ==
    \/ RunStep(Periodic, SteadyUpstream)
    \/ Raise(Periodic)
    \/ ScanFail(Periodic)
    \/ ScanFailRaise(Periodic)
    \/ Wake
    \/ UpdateSettings(UpdateBodies)

UpdateSpec == ImportedInit /\ [][UpdateNext]_vars

\* An exchange that always answers and lists two instruments, each of
\* which may or may not qualify, with equal or different percentages.
PairUpstream ==
    [ok |-> {TRUE},
     infos |-> { << Info("AAAUSDT", "PERPETUAL", "TRADING"),
                    Info("BBBUSDT", "PERPETUAL", "TRADING") >> },
     fetches |-> {"none", "data"}, market |-> {Calm60, Wild60}]

\* Exporting: export_symbols while the periodic thread scans against
\* PairUpstream.
ExportNext ==
    \/ RunStep(Periodic, PairUpstream)
    \/ Raise(Periodic)
    \/ ScanFail(Periodic)
    \/ ScanFailRaise(Periodic)
    \/ Wake
    \/ ExportTest
    \/ ExportBuild

ExportSpec == ImportedInit /\ [][ExportNext]_vars

\* The indicator functions called directly, on every argument of Calls.
CallInit == Loaded /\ pc[Startup] = "absent" /\ calc \in Calls

CallNext ==
    \/ CallATR
    \/ CallPercentage

CallSpec == CallInit /\ [][CallNext]_vars

\* ------------------------------------------------------------------ claims

Running == {t \in Threads : InBody(t)}

\* C1: in every reachable state at most one scan body is executing,
\* whichever of the periodic loop, the startup thread and force-scan
\* requests started the runs.
C1_AtMostOneScanBody == Cardinality(Running) <= 1

\* C2: a force-scan request that reads the flag (line 247) while the run
\* of an earlier accepted force-scan request has not finished (its thread
\* exists, whether or not it has set the flag yet) goes on to answer
\* scan_already_running, and starts no run.
C2_SecondForceScanRejected ==
    [][(ForceTest /\ \E t \in ForceThreads : Live(t))
         => fpc' = "f252"]_vars

\* C3: the results and the last_update of one get_scan_data response were
\* stored by one scan run (or both are the initial values): never the
\* results of one run with the last_update of another run, or with None.
C3_ResponsePairFromOneRun ==
    rpc \in {"r238", "r239", "r240", "sent"}
        => resp.results_run = resp.update_run

\* C4: in every reachable state the stored results are in non-increasing
\* order of atr_percentage.
C4_ResultsSorted ==
    \A i \in 1..(Len(results) - 1) :
        FGE(results[i].atr_percentage, results[i + 1].atr_percentage)

\* Line 204 has reordered what the engine returned: the listing has AAAUSDT
\* before BBBUSDT, and BBBUSDT has the strictly larger percentage.
C4_Witness ==
    /\ Len(results) = 2
    /\ results[1].symbol = "BBBUSDT"
    /\ results[2].symbol = "AAAUSDT"
    /\ FGT(results[1].atr_percentage, results[2].atr_percentage)

\* C5: a run that has set scanning=true sets scanning=false when it ends,
\* through line 208 or through the failure handler: the step that ends a
\* run leaves the flag false, and the flag is never true with no scan body
\* executing.
C5_FlagClearedAtEnd ==
    /\ [][\A t \in Threads :
            (InBody(t) /\ ~InBody(t)') => scanning' = FALSE]_vars
    /\ [](scanning => Running # {})

\* A step of update_settings.
UpdateStep == upc' # upc \/ nupd' # nupd

\* The step of update_settings that answers settings_updated, and the one
\* that answers an error.
UpdateSucceeds == upc = 5 /\ upc' = 0
UpdateFails == upc \in 1..4 /\ upd_resp'.status = "error"

\* C6: while a run is inside scan_symbols the settings its loop works with
\* do not change, whatever update_settings does meanwhile; every result it
\* has collected carries the period and multiplier the run was called
\* with; and a run that began after the last update request was answered
\* works with the stored settings.
C6_InFlightSettingsFixed ==
    /\ [][\A t \in Threads :
            (pc[t] \in {"list", "found", "loop"}
               /\ pc'[t] \in {"list", "found", "loop"})
              => LoopSettings(loc'[t].args, scan_settings')
                   = LoopSettings(loc[t].args, scan_settings)]_vars
    /\ [](\A t \in Threads : pc[t] = "loop" =>
            \A k \in 1..Len(loc[t].results) :
               /\ loc[t].results[k].atr_period = loc[t].args.atr_period
               /\ loc[t].results[k].atr_multiplier
                    = loc[t].args.atr_multiplier)
    /\ [](\A t \in Threads :
            (pc[t] \in {"list", "found", "loop"} /\ loc[t].nupd0 = nupd)
              => loc[t].args = scan_settings)

\* A run called with the default settings has collected a result with
\* them after an update of the multiplier and the interval was answered.
C6_Witness ==
    /\ pc[Periodic] = "loop"
    /\ loc[Periodic].args = DefaultSettings
    /\ loc[Periodic].nupd0 = 0
    /\ Answered = 1
    /\ scan_settings = Settings(5, 50, 20, Str("1h"))
    /\ Len(loc[Periodic].results) = 1
    /\ loc[Periodic].results[1].atr_multiplier = 5

\* C7: an update_settings request answered {status: "error"} leaves all
\* four stored settings as they were when the request arrived.
C7_ErrorLeavesSettings ==
    [][UpdateFails => scan_settings' = upd_old]_vars

\* The value of a body, as the number (in tenths) it is.
SameNumber(x, tenths) == x.k = "num" /\ x.v = tenths

\* What every step of update_settings leaves alone.
UpdateFrame ==
    /\ results' = results
    /\ last_update' = last_update
    /\ scanning' = scanning

\* C8 as stated: a successful update has set every provided field to the
\* provided value and left the other fields as they were when the request
\* arrived; it returns the merged settings; and no step of it changes
\* results, last_update or scanning.
C8_SetsProvidedValues ==
    [][/\ UpdateStep => UpdateFrame
       /\ UpdateSucceeds =>
            LET b == upd_body
                old == upd_old
                new == scan_settings
            IN /\ IF b.min_atr_percentage = Absent
                  THEN new.min_atr_percentage = old.min_atr_percentage
                  ELSE SameNumber(b.min_atr_percentage,
                                  new.min_atr_percentage)
               /\ IF b.atr_period = Absent
                  THEN new.atr_period = old.atr_period
                  ELSE SameNumber(b.atr_period, new.atr_period * 10)
               /\ IF b.atr_multiplier = Absent
                  THEN new.atr_multiplier = old.atr_multiplier
                  ELSE SameNumber(b.atr_multiplier, new.atr_multiplier)
               /\ IF b.interval = Absent
                  THEN new.interval = old.interval
                  ELSE new.interval = b.interval
               /\ upd_resp' = [status |-> "settings_updated",
                               settings |-> new]]_vars

\* C8, amended: a successful update has set min_atr_percentage and
\* atr_multiplier to float(value), atr_period to int(value) (a fraction is
\* cut off, a decimal text is parsed) and interval to the value, for the
\* fields provided, and left the other fields as they were when the
\* request arrived; it returns the merged settings; and no step of it
\* changes results, last_update or scanning.
C8_SetsConvertedValues ==
    [][/\ UpdateStep => UpdateFrame
       /\ UpdateSucceeds =>
            LET b == upd_body
                old == upd_old
                new == scan_settings
            IN /\ IF b.min_atr_percentage = Absent
                  THEN new.min_atr_percentage = old.min_atr_percentage
                  ELSE new.min_atr_percentage
                         = ToFloat(b.min_atr_percentage)
               /\ IF b.atr_period = Absent
                  THEN new.atr_period = old.atr_period
                  ELSE new.atr_period = ToInt(b.atr_period)
               /\ IF b.atr_multiplier = Absent
                  THEN new.atr_multiplier = old.atr_multiplier
                  ELSE new.atr_multiplier = ToFloat(b.atr_multiplier)
               /\ IF b.interval = Absent
                  THEN new.interval = old.interval
                  ELSE new.interval = b.interval
               /\ upd_resp' = [status |-> "settings_updated",
                               settings |-> new]]_vars

\* An update providing two fields, one of them as a decimal text, has
\* succeeded while a scan was in progress.
C8_Witness ==
    /\ upc = 0
    /\ upd_resp.status = "settings_updated"
    /\ upd_body = Body(Absent, Absent, Str("2"), Str("1h"))
    /\ scan_settings = Settings(5, 50, 20, Str("1h"))
    /\ upd_resp.settings = scan_settings
    /\ scanning

\* C9: the periodic loop never ends: its thread only ever goes from the
\* call of perform_scan into the body, from the body (normally or through
\* the failure handler) to the sleep and from the sleep to the next call;
\* and a step of force_scan leaves the loop's thread as it is.
C9_LoopKeepsRunning ==
    /\ [](pc[Periodic] \in {"start", "sleep"} \/ InBody(Periodic))
    /\ [][/\ (pc[Periodic] = "start" /\ pc'[Periodic] # "start")
                => InBody(Periodic)'
          /\ (InBody(Periodic) /\ ~InBody(Periodic)')
                => pc'[Periodic] = "sleep"
          /\ (pc[Periodic] = "sleep" /\ pc'[Periodic] # "sleep")
                => pc'[Periodic] = "start"]_vars
    /\ [][ForceScan => /\ pc'[Periodic] = pc[Periodic]
                       /\ loc'[Periodic] = loc[Periodic]
                       /\ wakes' = wakes]_vars

\* C10: until the first interval has elapsed or a force-scan has been
\* requested, at most one scan run has begun.
C10_OneScanAtStartup ==
    (wakes = 0 /\ fpc = "idle" /\ force_resp = "none") => nruns <= 1

\* The step of export_symbols that answers.
ExportAnswers == (ExportTest \/ ExportBuild) /\ epc' = "sent"

\* "BINANCE:<symbol>.P" for each entry of rs in order, with a comma before
\* each but the first.
RECURSIVE CommaJoined(_)
CommaJoined(rs) ==
    IF rs = <<>> THEN ""
    ELSE LET n == Len(rs)
             front == CommaJoined(SubSeq(rs, 1, n - 1))
         IN (IF n = 1 THEN "" ELSE front \o ",")
              \o "BINANCE:" \o rs[n].symbol \o ".P"

\* C11: export_symbols answers with count = the number of entries of the
\* results stored when it answers and symbols = the comma-joined
\* "BINANCE:<symbol>.P" of those entries in their stored order, which is
\* non-increasing in atr_percentage; for empty results it answers
\* symbols "" and count 0.
C11_ExportMatchesResults ==
    [][ExportAnswers =>
         /\ exp_resp'.count = Len(results)
         /\ exp_resp'.symbols = CommaJoined(results)
         /\ \A k \in 1..(Len(results) - 1) :
               FGE(results[k].atr_percentage,
                   results[k + 1].atr_percentage)
         /\ results = <<>> => exp_resp' = [symbols |-> "", count |-> 0]]_vars

\* An export of two results that the scan found in the other order:
\* the listing has AAAUSDT first and BBBUSDT has the larger percentage.
C11_Witness ==
    /\ epc = "sent"
    /\ exp_resp = [symbols |-> "BINANCE:BBBUSDT.P,BINANCE:AAAUSDT.P",
                   count |-> 2]
    /\ Len(results) = 2
    /\ FGT(results[1].atr_percentage, results[2].atr_percentage)

\* C12: in every get_scan_data response total_symbols is the number of
\* entries of the results of that same response, also when a run stores
\* new results while the response is being built.
C12_TotalMatchesResults ==
    rpc \in {"r240", "sent"} => resp.total_symbols = Len(resp.results)

\* C13: an instrument whose candles all have one constant price and zero
\* range has ATR 0.0 and is left out of the results, whatever minimum
\* threshold update_settings has accepted: no stored result has ATR 0.
C13_FlatInstrumentExcluded ==
    /\ calculate_atr(Klines(Flat60, scan_settings.atr_period + 50),
                     scan_settings.atr_period) = PlusZero
    /\ \A k \in 1..Len(results) : FGT(results[k].atr_value, PlusZero)

\* max(high - low, |high - prevClose|, |low - prevClose|)
TrueRangeOf(high, low, prevClose) ==
    LET Dist(a, b) == IF a >= b THEN a - b ELSE b - a
        m == IF Dist(high, prevClose) >= Dist(low, prevClose)
             THEN Dist(high, prevClose) ELSE Dist(low, prevClose)
    IN IF high - low >= m THEN high - low ELSE m

\* The sum of the true ranges of the last n candles of df, each of which
\* has a candle before it.
RECURSIVE SumOfLast(_, _)
SumOfLast(df, n) ==
    IF n = 0 THEN 0
    ELSE LET k == Len(df) - n + 1
         IN TrueRangeOf(df[k].high, df[k].low, df[k - 1].close)
              + SumOfLast(df, n - 1)

\* C14: calculate_atr returns 0.0 for a series of fewer than period + 1
\* candles, and for a longer one the arithmetic mean of the true ranges of
\* its last `period` candles (the float nearest to it).
C14_AtrIsMeanOfTrueRanges ==
    (calc.fn = "calculate_atr" /\ calc.calls = 1) =>
        IF Len(calc.df) < calc.period + 1
        THEN calc.returned = PlusZero
        ELSE calc.returned
               = FromRatio(SumOfLast(calc.df, calc.period), calc.period)

\* A call with three candles and period 2: the first candle is outside
\* the window, and both true ranges in it are gaps from the previous
\* close (10 and 15), not high - low (2 and 1).
C14_Witness ==
    /\ calc.calls = 1
    /\ calc.df = << Candle(10, 10, 10), Candle(20, 18, 19), Candle(5, 4, 4) >>
    /\ calc.period = 2
    /\ calc.returned = FromRatio(25, 2)

\* |a - b| <= c for natural numbers
NatNear(a, b, c) ==
    NatCmp(a, NatAdd(b, c)) <= 0 /\ NatCmp(b, NatAdd(a, c)) <= 0

\* `returned` is atr_value * multiplier / current_price * 100 (multiplier
\* in tenths, current_price > 0) up to the rounding of its float
\* operations: it has the sign of the exact value and is within 2^-50 of
\* it, relatively.  Both sides are multiplied by 10 * current_price and
\* brought to one power of two.
WithinRounding(returned, atr_value, current_price, multiplier) ==
    LET x == NatMulInt(returned.m, 10 * current_price)
        y == NatMulInt(atr_value.m, Abs(multiplier) * 100)
        e == IF returned.e <= atr_value.e THEN returned.e ELSE atr_value.e
    IN /\ NatNear(ShiftLeft(x, returned.e - e + 50),
                  ShiftLeft(y, atr_value.e - e + 50),
                  ShiftLeft(y, atr_value.e - e))
       /\ y # <<>> => returned.sign
                        = atr_value.sign * (IF multiplier < 0 THEN -1 ELSE 1)

\* C15: calculate_atr_percentage returns 0.0 when current_price <= 0 and
\* otherwise (atr_value * multiplier / current_price) * 100, as floats
\* give it; a second call with the same arguments returns the same.
C15_PercentageOfPrice ==
    (calc.fn = "calculate_atr_percentage" /\ calc.calls >= 1) =>
        /\ IF calc.current_price <= 0
           THEN calc.returned = PlusZero
           ELSE WithinRounding(calc.returned, calc.atr_value,
                               calc.current_price, calc.multiplier)
        /\ calc.calls = 2 => calc.returned = calc.before

\* ATR 9.5, price 50, multiplier 1.5: 28.499999999999996 percent (one unit
\* in the last place below 28.5), returned twice.
C15_Witness ==
    /\ calc.calls = 2
    /\ calc.atr_value = FromRatio(19, 2)
    /\ calc.current_price = 50
    /\ calc.multiplier = 15
    /\ FGT(FromRatio(57, 2), calc.returned)
    /\ FGT(calc.returned, FromRatio(2849, 100))
    /\ calc.before = calc.returned

\* A pass of thread t's loop over the instruments.
PassStep(t) == pc[t] = "loop" /\ pc'[t] = "loop" /\ loc'[t].i > loc[t].i

\* An instrument qualifies under the settings args when its candle fetch
\* succeeded with at least period + 1 candles and the percentage of line
\* 149, for the mean true range of the last `period` candles, is at least
\* the threshold.
QualifiesUnder(o, args) ==
    /\ o.fetch \in {"data", "late"}
    /\ args.interval \in ValidIntervals
    /\ Len(o.history) >= args.atr_period + 1
    /\ LET price == o.history[Len(o.history)].close
           mean == FromRatio(SumOfLast(o.history, args.atr_period),
                             args.atr_period)
           percentage == calculate_atr_percentage(mean, price,
                                                  args.atr_multiplier)
       IN FCmp(percentage, Tenths(args.min_atr_percentage)) >= 0

\* C16: what one run collects has exactly one entry for each instrument
\* whose fetch succeeded with at least period + 1 candles and whose
\* percentage is at least the threshold, and none for any other: every
\* pass appends one entry for its instrument when it qualifies and leaves
\* the collection as it is when it does not, and no instrument has two
\* entries.
C16_OneEntryPerQualifying ==
    /\ [][\A t \in Threads : PassStep(t) =>
            LET before == loc[t].results
                after == loc'[t].results
            IN IF QualifiesUnder(loc'[t].last, loc[t].args)
               THEN /\ Len(after) = Len(before) + 1
                    /\ SubSeq(after, 1, Len(before)) = before
                    /\ after[Len(after)].symbol = loc[t].symbols[loc[t].i]
               ELSE after = before]_vars
    /\ [](\A t \in Threads :
            \A a, b \in 1..Len(loc[t].results) :
               a < b => loc[t].results[a].symbol # loc[t].results[b].symbol)

\* Of two instruments the run has an entry for the second alone: the
\* first did not qualify and the second, fetched, did.
C16_Witness ==
    /\ pc[Periodic] = "loop"
    /\ loc[Periodic].i = 3
    /\ Len(loc[Periodic].symbols) = 2
    /\ Len(loc[Periodic].results) = 1
    /\ loc[Periodic].results[1].symbol = "BBBUSDT"
    /\ loc[Periodic].last.fetch = "data"
    /\ loc[Periodic].args.atr_period = 2

\* C17: a pass that raises (caught at line 167) leaves the run in the
\* loop at the next instrument, with the store untouched and with what it
\* had collected (and the entry of its instrument, when the pass raised
\* after appending it); the passes after it append the instruments that
\* qualify; and no pass aborts the run: while an instrument is left to
\* process, the run stays in the loop.
C17_FailingInstrumentSkipped ==
    /\ [][\A t \in Threads :
            (PassStep(t) /\ loc'[t].last.fetch \in {"raise", "late"}) =>
               /\ loc'[t].i = loc[t].i + 1
               /\ IF loc'[t].last.fetch = "raise"
                  THEN loc'[t].results = loc[t].results
                  ELSE /\ Len(loc'[t].results) = Len(loc[t].results) + 1
                       /\ SubSeq(loc'[t].results, 1, Len(loc[t].results))
                            = loc[t].results
               /\ UNCHANGED store]_vars
    /\ [][\A t \in Threads :
            (PassStep(t) /\ loc[t].last.fetch \in {"raise", "late"}
               /\ QualifiesUnder(loc'[t].last, loc[t].args)) =>
               /\ Len(loc'[t].results) = Len(loc[t].results) + 1
               /\ loc'[t].results[Len(loc'[t].results)].symbol
                    = loc[t].symbols[loc[t].i]]_vars
    /\ [][\A t \in Threads :
            (pc[t] = "loop" /\ loc[t].i <= Len(loc[t].symbols))
               => pc'[t] = "loop"]_vars

\* A run whose listing was empty or failed: get_active_symbols has
\* nothing to return but the empty list.
NothingListed(t) == pc[t] = "found" /\ loc[t].symbols = <<>>

\* C18: a listing that is empty or fails is no error: a failed listing
\* gives the empty list; the run with nothing listed goes on to the loop;
\* it stores the empty list as the results, whatever was stored before;
\* it stores the time it read after that as last_update; and it clears
\* scanning.
C18_EmptyListingPublishesNothing ==
    /\ [][\A t \in Threads :
            (pc[t] = "list" /\ pc'[t] = "found" /\ ~loc'[t].listed)
               => loc'[t].symbols = <<>>]_vars
    /\ [][\A t \in Threads :
            (NothingListed(t) /\ pc'[t] # "found") =>
               /\ pc'[t] = "loop"
               /\ loc'[t].symbols = <<>>]_vars
    /\ [][\A t \in Threads :
            (pc[t] = "loop" /\ loc[t].symbols = <<>> /\ pc'[t] # "loop") =>
               /\ pc'[t] = "stamp"
               /\ results' = <<>>]_vars
    /\ [][\A t \in Threads :
            (pc[t] = "stamp" /\ pc'[t] # "stamp") => pc'[t] = "store"]_vars
    /\ [][\A t \in Threads :
            (pc[t] = "store" /\ pc'[t] # "store") =>
               /\ pc'[t] = "clear"
               /\ last_update' = loc[t].now
               /\ last_update' \in Readings]_vars
    /\ [][\A t \in Threads :
            (pc[t] = "clear" /\ pc'[t] # "clear") => ~scanning']_vars

\* C19: a run that ends through the failure handler leaves results and
\* last_update as they were when it began: a run that is in the handler
\* (lines 212-214) has not executed lines 206-207.
C19_FailedRunLeavesStore ==
    \A t \in Threads : pc[t] = "except" => ~loc[t].published

\* C20: between the candle fetch of one instrument and the candle fetch
\* of the next of the same run the time.sleep(0.1) of line 165 has run,
\* however the earlier pass ended: a run about to fetch for its second or
\* a later instrument has slept since the pass before.
C20_PacedBetweenFetches ==
    \A t \in Threads :
        (pc[t] = "loop" /\ loc[t].i \in 2..Len(loc[t].symbols))
            => loc[t].paced

\* A run in progress: past its line 193 and before its own line 208, no
\* statement of it having raised.
InProgress(t) ==
    pc[t] \in {"rd_min", "rd_per", "rd_mul", "rd_int", "list", "found",
               "loop",
               "stamp", "store", "clear"}

\* C21: whenever get_scan_data reads the flag (line 238) while some scan
\* run is in progress, the flag it reports is true.
C21_FlagTrueWhileScanning ==
    [][(GetScanning /\ \E t \in Threads : InProgress(t))
         => resp'.scanning]_vars

\* C22: the four settings values a run calls scan_symbols with equal the
\* stored settings as they were at one instant between the start of the
\* run and the evaluation of the last argument (line 200).
C22_SettingsSnapshot ==
    [][\A t \in Threads :
         ReadInterval(t) => loc'[t].args \in loc[t].seen]_vars

\* C23: a run never stores its results (line 206) after a run that began
\* later has stored its own, so that the stored results are those of the
\* run that began last among the runs that have stored results; checked
\* for the runs of the threads started at load time.
C23_LatestStartedRunWins ==
    [][\A t \in AtLoad : Publish(t) => ~loc[t].overtaken]_vars

\* C24: in a calculate_atr call that computes true_range, the row of a
\* candle with high >= low is >= 0; the row of the first candle, which has
\* no previous close, is high - low; and the row of a later candle whose
\* |high - prevClose| and |low - prevClose| are both <= high - low is
\* high - low.
C24_TrueRangeOfCandle ==
    (calc.fn = "calculate_atr" /\ calc.calls = 1) =>
        \A i \in 1..Len(calc.true_range) :
            LET candle == calc.df[i]
                spread == candle.high - candle.low
                inside == /\ i > 1
                          /\ Abs(candle.high - calc.df[i - 1].close) <= spread
                          /\ Abs(candle.low - calc.df[i - 1].close) <= spread
            IN /\ candle.high >= candle.low => calc.true_range[i] >= 0
               /\ i = 1 => calc.true_range[i] = spread
               /\ inside => calc.true_range[i] = spread

\* A call on three candles: the first has high > low, the second gaps up
\* from the first close (its true range is the gap, 9, not its spread, 2)
\* and the third stays within its spread of the second close.
C24_Witness ==
    /\ calc.fn = "calculate_atr"
    /\ calc.calls = 1
    /\ calc.df = << Candle(12, 10, 11), Candle(20, 18, 19),
                    Candle(20, 18, 19) >>
    /\ calc.true_range = << 2, 9, 2 >>

=============================================================================
